---- MODULE Spec2Model ----
(***************************************************************************)
(* NestedViewSetMixin.get_queryset (rest_framework_nested/viewsets.py) and *)
(* the fixtures of tests/test_viewsets.py: a GrandChild table with a       *)
(* nullable foreign key `prefered` and a many-to-many relation `roots`,    *)
(* view sets with and without the mixin, and list requests routed to them. *)
(***************************************************************************)
EXTENDS Integers, Sequences, FiniteSets

\* Number of GrandChild rows the model creates at most.
MaxRecords == 1

\* setUp creates root_1 and root_2 (primary keys 1 and 2).
NumRoots == 2

Roots == 1..NumRoots

\* prefered is null=True: the column value of a record with no prefered root.
NULL == 0

\* The field paths the view sets filter on.
Fields == {"prefered_id", "roots__id"}

\* Path-parameter names a nested router can put in self.kwargs.
QueryParams == {"parent_pk", "root_pk"}

--------------------------------------------------------------------------
(* Field references, mappings, view sets *)

\* Non-empty sequences over S without repetition.
RECURSIVE Arrangements(_)
Arrangements(S) ==
    IF S = {} THEN {<<>>}
    ELSE {<<>>} \cup UNION { { <<x>> \o t : t \in Arrangements(S \ {x}) } : x \in S }

\* One canonical listing of a set of field paths.
Listing(S) == CHOOSE s \in Arrangements(S) : Len(s) = Cardinality(S)

StrRefs == { [type |-> "str", paths |-> <<f>>] : f \in Fields }

TupleRefs == { [type |-> "tuple", paths |-> s] : s \in Arrangements(Fields) \ {<<>>} }

SetRefs == { [type |-> "set", paths |-> Listing(S)] : S \in (SUBSET Fields) \ {{}} }

FieldRefs == StrRefs \cup TupleRefs \cup SetRefs

\* The items() of a dict whose values are drawn from Refs: distinct keys,
\* in insertion order.
ItemsOver(Refs) ==
    UNION { { [i \in 1..Len(ks) |-> [query_param |-> ks[i], field_name |-> fn[i]]]
              : fn \in [1..Len(ks) -> Refs] }
            : ks \in Arrangements(QueryParams) }

\* getattr(obj, 'parent_lookup_kwargs', None): None, or a dict.
None == [defined |-> FALSE, items |-> <<>>]

Dict(items) == [defined |-> TRUE, items |-> items]

\* A view set's parent_lookup_kwargs: absent, or any dict over the field
\* references.
HandlerMappings == {None} \cup { Dict(it) : it \in ItemsOver(FieldRefs) }

\* Mappings of at most one entry.
OneEntryMappings == { m \in HandlerMappings : Len(m.items) <= 1 }

\* A serializer class's parent_lookup_kwargs: absent, or a dict of at most
\* one plain field path.
SerializerMappings ==
    {None} \cup { Dict(it) : it \in { x \in ItemsOver(StrRefs) : Len(x) <= 1 } }

ViewSet(mixin, plk, ser) ==
    [mixin |-> mixin, parent_lookup_kwargs |-> plk, serializer_class |-> ser]

\* The view set classes registered on the router: classes with the mixin and
\* any handler-level mapping (serializer without one), and classes with or
\* without the mixin whose handler and serializer declare at most one entry.
ViewSets ==
    { ViewSet(TRUE, h, None) : h \in HandlerMappings }
    \cup { ViewSet(x, h, s) : x \in BOOLEAN, h \in OneEntryMappings, s \in SerializerMappings }

\* self.kwargs: the path parameters of a request, some names possibly absent.
\* A value is the primary key the URL segment names; turning the segment's
\* text into a key is the field's work inside the query engine.
PathParameters == UNION { [S -> Roots] : S \in SUBSET QueryParams }

--------------------------------------------------------------------------
(* The query engine, as get_queryset uses it *)

\* A Q object built by reduce(operator.or_, ...): its leaves, in order.
Leaf(field, value) == [field |-> field, value |-> value]

\* One filter(*args, **kwargs) call: the Q objects and the keyword dict (its
\* items, in insertion order).
FilterCall(args, kw) == [args |-> args, kwargs |-> kw]

\* Model.objects.all(): a query is the sequence of filter calls chained on it.
BaseQuery == <<>>

\* Whether a filter call traverses the many-to-many relation.
UsesRoots(call) ==
    \/ \E k \in 1..Len(call.kwargs) : call.kwargs[k].field = "roots__id"
    \/ \E i \in 1..Len(call.args) : \E k \in 1..Len(call.args[i]) :
           call.args[i][k].field = "roots__id"

\* The rows one filter call joins to a record: one per related root, or a
\* single row of NULLs (no join, or a LEFT OUTER JOIN with nothing related).
JoinRows(call, rec) ==
    IF UsesRoots(call) /\ rec.roots # {} THEN rec.roots ELSE {NULL}

\* field = value on a joined row; NULL equals nothing.
LeafHolds(leaf, rec, j) ==
    IF leaf.field = "prefered_id"
    THEN rec.prefered # NULL /\ rec.prefered = leaf.value
    ELSE j # NULL /\ j = leaf.value

\* WHERE: every Q (a disjunction) and every keyword equality, on the same row.
Where(call, rec, j) ==
    /\ \A i \in 1..Len(call.args) :
           \E k \in 1..Len(call.args[i]) : LeafHolds(call.args[i][k], rec, j)
    /\ \A k \in 1..Len(call.kwargs) : LeafHolds(call.kwargs[k], rec, j)

\* How many result rows a record contributes: each chained filter call adds
\* its own join, so the counts multiply.
RECURSIVE RowCount(_, _)
RowCount(query, rec) ==
    IF query = <<>> THEN 1
    ELSE Cardinality({ j \in JoinRows(Head(query), rec) : Where(Head(query), rec, j) })
         * RowCount(Tail(query), rec)

\* list(queryset): how many times each primary key of table is listed.
Evaluate(query, table) == [pk \in 1..Len(table) |-> RowCount(query, table[pk])]

\* The records of an evaluated query, as a set of primary keys.
Records(query, table) == { pk \in 1..Len(table) : RowCount(query, table[pk]) > 0 }

\* Mutation: the filtered query is dropped and the receiver returned.
FilterDropped(queryset, args, kw) == queryset

\* queryset.filter(*args, **kwargs): a new query, the receiver untouched.
Filter(queryset, args, kw) == Append(queryset, FilterCall(args, kw))

--------------------------------------------------------------------------
(* NestedViewSetMixin.get_queryset *)

\* What a call leaves behind: the exception it raised ("" for none), the
\* value it returned (none when it raised), and self.kwargs as it now is.
Returned(queryset, self_kwargs) ==
    [raised |-> "", returned |-> <<queryset>>, kwargs |-> self_kwargs]

Raised(exc, self_kwargs) ==
    [raised |-> exc, returned |-> <<>>, kwargs |-> self_kwargs]

\* Mutation: the serializer class's mapping is looked up first.
ResolveSerializerFirst(self) ==
    IF self.serializer_class.defined /\ self.serializer_class.items # <<>>
    THEN self.serializer_class
    ELSE self.parent_lookup_kwargs

\* The mapping get_queryset filters by: the view set's own when it is truthy,
\* else the serializer class's.
ResolveMapping(self) ==
    IF self.parent_lookup_kwargs.defined /\ self.parent_lookup_kwargs.items # <<>>
    THEN self.parent_lookup_kwargs
    ELSE self.serializer_class

\* Mutation: isinstance(field_name, (tuple, set)).
IsTupleOrSet(field_name) == field_name.type \in {"tuple", "set"}

\* isinstance(field_name, tuple)
IsTuple(field_name) == field_name.type = "tuple"

\* Mutation: only the first field of the tuple is compared.
ReduceFirstOnly(field_name, value) == <<Leaf(field_name.paths[1], value)>>

\* reduce(operator.or_, (Q(**{field: value}) for field in field_name))
ReduceOr(field_name, value) ==
    [k \in 1..Len(field_name.paths) |-> Leaf(field_name.paths[k], value)]

\* d[key] = value on a dict: an existing key keeps its place and takes the
\* new value, a new key goes last.
SetItem(d, key, value) ==
    IF \E k \in 1..Len(d) : d[k].field = key
    THEN [k \in 1..Len(d) |-> IF d[k].field = key THEN Leaf(key, value) ELSE d[k]]
    ELSE Append(d, Leaf(key, value))

\* Mutation: self.kwargs.get(query_param), None for a missing name.
DictGet(self_kwargs, query_param) ==
    [raised |-> "",
     value |-> IF query_param \in DOMAIN self_kwargs THEN self_kwargs[query_param]
               ELSE NULL]

\* self.kwargs[query_param]: the value, or KeyError for a missing name.
Subscript(self_kwargs, query_param) ==
    IF query_param \in DOMAIN self_kwargs
    THEN [raised |-> "", value |-> self_kwargs[query_param]]
    ELSE [raised |-> "KeyError", value |-> NULL]

\* Mutation: self.kwargs.pop(query_param).
AfterPop(self_kwargs, query_param) ==
    [p \in (DOMAIN self_kwargs) \ {query_param} |-> self_kwargs[p]]

\* self.kwargs after the read self.kwargs[query_param]: a subscript read
\* removes nothing.
AfterRead(self_kwargs, query_param) == self_kwargs

\* One pass of the for loop over parent_lookup_kwargs.items(); st carries
\* orm_arg_filters, orm_kwargs_filters, self.kwargs and the exception raised
\* so far. The generator over a tuple reads self.kwargs once per field, inside
\* reduce; the else branch reads it before the dict is written.
LoopBody(item, st) ==
    LET query_param == item.query_param
        field_name == item.field_name
        read == Subscript(st.kwargs, query_param)
    IN  IF IsTuple(field_name)
        THEN IF field_name.paths = <<>>
             THEN [st EXCEPT !.raised = "TypeError"]
             ELSE IF read.raised # ""
             THEN [st EXCEPT !.raised = read.raised]
             ELSE [st EXCEPT !.orm_arg_filters = Append(@, ReduceOr(field_name, read.value)),
                             !.kwargs = AfterRead(@, query_param)]
        ELSE IF read.raised # ""
             THEN [st EXCEPT !.raised = read.raised]
             ELSE IF field_name.type # "str"
             THEN [st EXCEPT !.raised = "TypeError",
                             !.kwargs = AfterRead(@, query_param)]
             ELSE [st EXCEPT !.orm_kwargs_filters =
                                 SetItem(@, field_name.paths[1], read.value),
                             !.kwargs = AfterRead(@, query_param)]

\* The for loop: it stops at the first exception.
RECURSIVE ForItems(_, _)
ForItems(items, st) ==
    IF items = <<>> \/ st.raised # "" THEN st
    ELSE ForItems(Tail(items), LoopBody(Head(items), st))

\* Mutation: the serializer class's attribute is read without a default, so a
\* class that declares no mapping raises.
MixinGetQuerysetNoDefault(self, self_kwargs, queryset) ==
    LET parent_lookup_kwargs == ResolveMapping(self)
    IN  IF ~parent_lookup_kwargs.defined THEN Raised("AttributeError", self_kwargs)
        ELSE IF parent_lookup_kwargs.items # <<>>
        THEN LET st == ForItems(parent_lookup_kwargs.items,
                                [raised |-> "", orm_arg_filters |-> <<>>,
                                 orm_kwargs_filters |-> <<>>, kwargs |-> self_kwargs])
             IN  IF st.raised # "" THEN Raised(st.raised, st.kwargs)
                 ELSE Returned(Filter(queryset, st.orm_arg_filters,
                                      st.orm_kwargs_filters), st.kwargs)
        ELSE Returned(queryset, self_kwargs)

\* get_queryset of a view set with the mixin, on the query its superclass
\* returns.
MixinGetQueryset(self, self_kwargs, queryset) ==
    LET parent_lookup_kwargs == ResolveMapping(self)
    IN  IF parent_lookup_kwargs.defined /\ parent_lookup_kwargs.items # <<>>
        THEN LET st == ForItems(parent_lookup_kwargs.items,
                                [raised |-> "", orm_arg_filters |-> <<>>,
                                 orm_kwargs_filters |-> <<>>, kwargs |-> self_kwargs])
             IN  IF st.raised # "" THEN Raised(st.raised, st.kwargs)
                 ELSE Returned(Filter(queryset, st.orm_arg_filters,
                                      st.orm_kwargs_filters), st.kwargs)
        ELSE Returned(queryset, self_kwargs)

\* get_queryset as the request calls it: ModelViewSet's own when the class
\* has no mixin.
GetQuerysetOf(self, self_kwargs, queryset) ==
    IF self.mixin THEN MixinGetQueryset(self, self_kwargs, queryset)
    ELSE Returned(queryset, self_kwargs)

--------------------------------------------------------------------------
(* State: the GrandChild table, and the request being served *)

VARIABLES
    db,        \* the GrandChild table: row pk is db[pk] = [prefered, roots]
    self,      \* the view set instance the request was routed to
    kwargs,    \* self.kwargs, the request's path parameters
    pc,        \* "routed": get_queryset not yet called; "done": it was called
    result     \* the last get_queryset call of this request: [raised, returned]

vars == <<db, self, kwargs, pc, result>>

NoResult == [raised |-> "", returned |-> <<>>]

GrandChild(prefered) == [prefered |-> prefered, roots |-> {}]

\* A request has been routed: the view set instance exists and holds the path
\* parameters. The test database is still empty.
Init ==
    /\ db = <<>>
    /\ self \in ViewSets
    /\ kwargs \in PathParameters
    /\ pc = "routed"
    /\ result = NoResult

\* GrandChild.objects.create(name=..., prefered=...)
Create(prefered) ==
    /\ Len(db) < MaxRecords
    /\ db' = Append(db, GrandChild(prefered))
    /\ UNCHANGED <<self, kwargs, pc, result>>

\* grand_child.roots.add(root)
RootsAdd(pk, root) ==
    /\ pk \in 1..Len(db)
    /\ root \notin db[pk].roots
    /\ db' = [db EXCEPT ![pk].roots = @ \cup {root}]
    /\ UNCHANGED <<self, kwargs, pc, result>>

\* self.get_queryset(), on the class's queryset = GrandChild.objects.all()
GetQueryset ==
    LET call == GetQuerysetOf(self, kwargs, BaseQuery)
    IN  /\ result' = [raised |-> call.raised, returned |-> call.returned]
        /\ kwargs' = call.kwargs
        /\ pc' = "done"
        /\ UNCHANGED <<db, self>>

Next ==
    \/ \E prefered \in Roots \cup {NULL} : Create(prefered)
    \/ \E pk \in 1..MaxRecords, root \in Roots : RootsAdd(pk, root)
    \/ GetQueryset

Spec == Init /\ [][Next]_vars

--------------------------------------------------------------------------
(* Vocabulary of the properties *)

Called == pc = "done"

Succeeded == Called /\ result.raised = "" /\ Len(result.returned) = 1

\* The query a successful call returned.
ReturnedQuery == result.returned[1]

AllRecords == 1..Len(db)

\* A record's field equals v: the foreign key column is v, or v is one of the
\* related roots.
FieldEquals(rec, field, v) ==
    IF field = "prefered_id" THEN rec.prefered = v ELSE v \in rec.roots

\* Truthy in Python: a dict with at least one entry.
NonEmpty(m) == m.defined /\ m.items # <<>>

\* The view set has the mixin and exactly one place declares a mapping, the
\* other declaring none at all.
SoleMappingDeclared ==
    /\ self.mixin
    /\ self.serializer_class = None \/ self.parent_lookup_kwargs = None

SoleMapping ==
    IF self.serializer_class = None THEN self.parent_lookup_kwargs
    ELSE self.serializer_class

EveryNamePresent(m) ==
    \A i \in 1..Len(m.items) : m.items[i].query_param \in DOMAIN kwargs

\* The term of one mapping entry, on a record: some field of the entry
\* equals the entry's path parameter.
TermHolds(item, rec) ==
    \E k \in 1..Len(item.field_name.paths) :
        FieldEquals(rec, item.field_name.paths[k], kwargs[item.query_param])

OneEntryOfType(m, type) ==
    m.defined /\ Len(m.items) = 1 /\ m.items[1].field_name.type = type

--------------------------------------------------------------------------
(* Properties *)

\* C1: with a single-field mapping {param: field} and param among the path
\* parameters, get_queryset succeeds and returns exactly the records whose
\* field equals kwargs[param] (none when none matches); a view set without
\* the mixin returns the whole base collection.
C1_SingleFieldExact ==
    /\ ( Called /\ SoleMappingDeclared /\ OneEntryOfType(SoleMapping, "str")
         /\ EveryNamePresent(SoleMapping) )
       => /\ Succeeded
          /\ Records(ReturnedQuery, db)
               = { pk \in AllRecords : TermHolds(SoleMapping.items[1], db[pk]) }
    /\ ( Called /\ ~self.mixin )
       => /\ Succeeded
          /\ ReturnedQuery = BaseQuery
          /\ Records(ReturnedQuery, db) = AllRecords

\* A record matching the path parameter through the single field was returned.
C1_Witness ==
    /\ Succeeded /\ SoleMappingDeclared /\ OneEntryOfType(SoleMapping, "str")
    /\ EveryNamePresent(SoleMapping)
    /\ db # <<>>
    /\ Records(ReturnedQuery, db) = AllRecords
    /\ ReturnedQuery # BaseQuery

\* C2: with a tuple mapping {param: (f1, ..., fn)}, n >= 1, get_queryset
\* returns exactly the records for which some fi equals kwargs[param].
C2_TupleAnyOf ==
    ( Called /\ SoleMappingDeclared /\ OneEntryOfType(SoleMapping, "tuple")
      /\ EveryNamePresent(SoleMapping) )
    => /\ Succeeded
       /\ Records(ReturnedQuery, db)
            = { pk \in AllRecords : TermHolds(SoleMapping.items[1], db[pk]) }

\* A record with no prefered root, related to the parent only through roots,
\* was returned under the mapping (prefered_id, roots__id).
C2_Witness ==
    /\ Succeeded /\ SoleMappingDeclared /\ OneEntryOfType(SoleMapping, "tuple")
    /\ SoleMapping.items[1].field_name.paths = <<"prefered_id", "roots__id">>
    /\ EveryNamePresent(SoleMapping)
    /\ \E pk \in Records(ReturnedQuery, db) :
          /\ db[pk].prefered = NULL
          /\ kwargs[SoleMapping.items[1].query_param] \in db[pk].roots

\* C5: with no mapping on the view set and none on the serializer class,
\* get_queryset returns the base query unchanged and raises nothing,
\* whatever the path parameters.
C5_NoMappingIdentity ==
    ( Called /\ self.mixin /\ ~NonEmpty(self.parent_lookup_kwargs)
      /\ ~NonEmpty(self.serializer_class) )
    => /\ Succeeded
       /\ ReturnedQuery = BaseQuery
       /\ \A pk \in AllRecords : Evaluate(ReturnedQuery, db)[pk] = 1

\* A view set with the mixin and no mapping anywhere listed a record while
\* path parameters were present.
C5_Witness ==
    /\ Succeeded /\ self.mixin
    /\ self.parent_lookup_kwargs = None /\ self.serializer_class = None
    /\ DOMAIN kwargs = QueryParams
    /\ db # <<>> /\ Records(ReturnedQuery, db) = AllRecords

\* Every entry is a single field path (type "str") or a tuple of field paths.
PlainOrTuple(m) ==
    \A i \in 1..Len(m.items) : m.items[i].field_name.type \in {"str", "tuple"}

\* C3: with a mapping of two or more entries (single-field or tuple) and all
\* mapped names present, get_queryset returns exactly the records that
\* satisfy the term of every entry.
C3_EveryEntryConstrains ==
    ( Called /\ SoleMappingDeclared /\ SoleMapping.defined
      /\ Len(SoleMapping.items) >= 2 /\ PlainOrTuple(SoleMapping)
      /\ EveryNamePresent(SoleMapping) )
    => /\ Succeeded
       /\ Records(ReturnedQuery, db)
            = { pk \in AllRecords :
                  \A i \in 1..Len(SoleMapping.items) :
                      TermHolds(SoleMapping.items[i], db[pk]) }

\* What the call of this request would have left behind had the view set
\* declared handler_mapping and its serializer class nothing.
AsIfOnly(handler_mapping) ==
    LET call == GetQuerysetOf(ViewSet(TRUE, handler_mapping, None), kwargs, BaseQuery)
    IN  [raised |-> call.raised, returned |-> call.returned]

\* C4 as stated: whenever the view set has its own parent_lookup_kwargs, that
\* mapping alone determines the result and the serializer's is not used.
C4_HandlerMappingAlwaysWins ==
    ( Called /\ self.mixin /\ self.parent_lookup_kwargs.defined )
    => result = AsIfOnly(self.parent_lookup_kwargs)

\* C4, amended: a non-empty mapping on the view set alone determines the
\* result; when the view set has none or an empty one, the serializer
\* class's mapping determines it; when neither has a non-empty one, the
\* base query is returned unfiltered.
C4_Precedence ==
    ( Called /\ self.mixin )
    => /\ NonEmpty(self.parent_lookup_kwargs)
            => result = AsIfOnly(self.parent_lookup_kwargs)
       /\ ~NonEmpty(self.parent_lookup_kwargs)
            => result = AsIfOnly(self.serializer_class)
       /\ ( ~NonEmpty(self.parent_lookup_kwargs) /\ ~NonEmpty(self.serializer_class) )
            => result = [raised |-> "", returned |-> <<BaseQuery>>]

\* Both places declare a non-empty mapping, and the result is the handler's:
\* it selects other records than the serializer's mapping would.
C4_Witness ==
    /\ Succeeded /\ self.mixin
    /\ NonEmpty(self.parent_lookup_kwargs) /\ NonEmpty(self.serializer_class)
    /\ AsIfOnly(self.serializer_class).raised = ""
    /\ Records(ReturnedQuery, db)
         # Records(AsIfOnly(self.serializer_class).returned[1], db)

\* C6: if a name the mapping uses as a key is absent from the path
\* parameters, get_queryset raises and returns no query; the exception is
\* the missing-key error for mappings of single-field and tuple entries; and
\* with every mapped name present no missing-key error is raised.
C6_MissingParameterFails ==
    ( Called /\ SoleMappingDeclared /\ NonEmpty(SoleMapping) )
    => /\ ~EveryNamePresent(SoleMapping)
            => result.raised # "" /\ result.returned = <<>>
       /\ ( ~EveryNamePresent(SoleMapping) /\ PlainOrTuple(SoleMapping) )
            => result.raised = "KeyError"
       /\ EveryNamePresent(SoleMapping) => result.raised # "KeyError"

\* A two-entry mapping whose first name is present and whose second, a tuple
\* entry's, is absent: the call raised the missing-key error.
C6_Witness ==
    /\ Called /\ SoleMappingDeclared /\ SoleMapping.defined
    /\ Len(SoleMapping.items) = 2 /\ PlainOrTuple(SoleMapping)
    /\ SoleMapping.items[1].query_param \in DOMAIN kwargs
    /\ SoleMapping.items[2].query_param \notin DOMAIN kwargs
    /\ SoleMapping.items[2].field_name.type = "tuple"
    /\ result.raised = "KeyError" /\ result.returned = <<>>

\* C7 as stated: a set of field paths is accepted and treated like a tuple.
C7_SetTreatedLikeTuple ==
    ( Called /\ SoleMappingDeclared /\ OneEntryOfType(SoleMapping, "set")
      /\ EveryNamePresent(SoleMapping) )
    => /\ Succeeded
       /\ Records(ReturnedQuery, db)
            = { pk \in AllRecords : TermHolds(SoleMapping.items[1], db[pk]) }

\* C7, amended: a set of field paths is not accepted: with the mapped name
\* present, get_queryset raises a type error and returns no query.
C7_SetRejected ==
    ( Called /\ SoleMappingDeclared /\ OneEntryOfType(SoleMapping, "set")
      /\ EveryNamePresent(SoleMapping) )
    => result.raised = "TypeError" /\ result.returned = <<>>

\* The mapping {param: {prefered_id, roots__id}} was used with param present
\* and a record related to the parent in the table.
C7_Witness ==
    /\ Called /\ SoleMappingDeclared /\ OneEntryOfType(SoleMapping, "set")
    /\ Len(SoleMapping.items[1].field_name.paths) = 2
    /\ EveryNamePresent(SoleMapping)
    /\ \E pk \in AllRecords : TermHolds(SoleMapping.items[1], db[pk])
    /\ result.raised = "TypeError"

\* get_queryset applied to the query it returned, same view set, same path
\* parameters.
Reapplied == GetQuerysetOf(self, kwargs, ReturnedQuery)

\* C8: when get_queryset succeeds, applying it again to its own result
\* succeeds and selects the same set of records.
C8_Idempotent ==
    Succeeded
    => /\ Reapplied.raised = ""
       /\ Len(Reapplied.returned) = 1
       /\ Records(Reapplied.returned[1], db) = Records(ReturnedQuery, db)

\* A filter was applied twice (two chained filter calls) over a table holding
\* a record it keeps.
C8_Witness ==
    /\ Succeeded /\ self.mixin /\ ReturnedQuery # BaseQuery
    /\ Len(Reapplied.returned) = 1
    /\ Len(Reapplied.returned[1]) = 2
    /\ Records(ReturnedQuery, db) # {}

\* C9: a get_queryset call, returning or raising, leaves the table, the view
\* set's and the serializer class's mappings and the path parameters as they
\* were, and a repeated call leaves the same result.
C9_NoSideEffects ==
    [][ GetQueryset
        => /\ db' = db
           /\ self' = self
           /\ kwargs' = kwargs
           /\ Called => result' = result ]_vars

\* A call that read both path parameters has returned, over a table that
\* holds a record.
C9_Witness ==
    /\ Called /\ self.mixin /\ NonEmpty(self.parent_lookup_kwargs)
    /\ Len(self.parent_lookup_kwargs.items) = 2
    /\ DOMAIN kwargs = QueryParams
    /\ result.raised = ""
    /\ db # <<>>

\* C10: under a tuple mapping over the direct and the many-to-many relation,
\* no record is listed more than once.
C10_NoDuplicates ==
    ( Succeeded /\ SoleMappingDeclared /\ OneEntryOfType(SoleMapping, "tuple")
      /\ Len(SoleMapping.items[1].field_name.paths) = 2
      /\ EveryNamePresent(SoleMapping) )
    => \A pk \in AllRecords : Evaluate(ReturnedQuery, db)[pk] <= 1

====
